---------------------------- MODULE Spec2Model ----------------------------
(***************************************************************************)
(* Cutting-stock models of column_generation.py.                           *)
(*                                                                         *)
(* base_model (Kantorovich) and column_model (Gilmore-Gomory) build a      *)
(* linear program from a Data object, hand it to the solver (pulp's        *)
(* model.solve()) and read the solved variables back into a pair           *)
(* (objective value, used patterns).                                       *)
(*                                                                         *)
(* Numbers.  A solved variable is a rational; all variables of one solve   *)
(* share the denominator den of that solve and the model keeps the         *)
(* numerators.  cat=LpInteger is den = 1.  cat=LpContinuous is a grid of   *)
(* step 1/den with den chosen so that the grid holds an optimum of the     *)
(* linear program (see Scale).                                             *)
(*                                                                         *)
(* Solver.  model.solve() is not code of this repository.  It is modelled  *)
(* by its contract: when the program is feasible it leaves in the          *)
(* variables ANY feasible assignment of least objective; when it is not,   *)
(* it reports Infeasible and leaves the variables unset or at values that  *)
(* are no solution.  It never raises.                                      *)
(***************************************************************************)
EXTENDS Integers, Sequences, FiniteSets

VARIABLES data, plan, pc, objs, frame

vars == <<data, plan, pc, objs, frame>>

---------------------------------------------------------------------------
(* Bounds of the generic instance family.                                  *)

MaxRaw == 2        \* RAWS_WIDTH and the order widths range over 1..MaxRaw
MaxTypes == 2      \* number of order types
MaxQty == 2        \* an order quantity ranges over -1..MaxQty
MaxDemand == 2     \* sum(orders), the number of candidate rolls
MaxPatterns == 2   \* length of the pattern list
MaxCount == 2      \* a pattern entry ranges over 0..MaxCount

---------------------------------------------------------------------------
(* Arithmetic helpers.                                                     *)

Max(a, b) == IF a >= b THEN a ELSE b

Abs(a) == IF a >= 0 THEN a ELSE -a

RECURSIVE SumSeq(_)
SumSeq(s) == IF s = <<>> THEN 0 ELSE Head(s) + SumSeq(Tail(s))

\* ceil(a / b) for b > 0
CeilDiv(a, b) == -((-a) \div b)

\* sum over the domain of a function of integers
RECURSIVE SumFn(_, _)
SumFn(f, S) ==
    IF S = {} THEN 0
    ELSE LET x == CHOOSE y \in S : TRUE IN f[x] + SumFn(f, S \ {x})

---------------------------------------------------------------------------
(* Data (lines 8-31).                                                      *)

\* RAWS_NUMBER = sum(orders)
RAWS_NUMBER(d) == SumSeq(d.orders)

\* cuts_ids = range(data.RAWS_NUMBER): empty when RAWS_NUMBER <= 0
cuts_ids(d) == 1..RAWS_NUMBER(d)

\* order_types_ids = range(len(data.orders))
order_types_ids(d) == 1..Len(d.orders)

\* patterns_ids = range(len(data.patterns))
patterns_ids(d) == 1..Len(d.patterns)

\* sum(pattern[t] * order_sizes[t]), the width one roll cut by `pattern` needs
PatternWidth(d, pattern) ==
    SumFn([t \in order_types_ids(d) |-> pattern[t] * d.order_sizes[t]],
          order_types_ids(d))

---------------------------------------------------------------------------
(* base_model: the program it builds (lines 44-65).                        *)

\* cuts = LpVariable.dicts("raw_cut", ..., lowBound=0, upBound=1) and
\* items = LpVariable.dicts("item", ..., lowBound=0) of one roll c, and its
\* constraint max_width_c (lines 60-63):
\*   sum(order_sizes[t] * items[t, c]) <= RAWS_WIDTH * cuts[c]
max_width_ge(d, r) ==
    PatternWidth(d, r.items) >= d.RAWS_WIDTH * r.used

max_width(d, r) ==
    PatternWidth(d, r.items) <= d.RAWS_WIDTH * r.used

\* The values the variables of one roll may take together (numerators over den).
\* Every order width of the family is >= 1, so max_width bounds each item by
\* RAWS_WIDTH * den.
RollChoices(d, den) ==
    {r \in [used : 0..den,
            items : [order_types_ids(d) -> 0..(d.RAWS_WIDTH * den)]] :
        max_width(d, r)}

\* min_demand_t (lines 56-58): sum(items[t, c] for c) >= orders[t], as what is
\* still to be cut of each type once some rolls are assigned
DemandOfSizes(d, den) == [t \in order_types_ids(d) |-> den * d.order_sizes[t]]

Demand(d, den) == [t \in order_types_ids(d) |-> den * d.orders[t]]

AfterRoll(rem, r) == [t \in DOMAIN rem |-> rem[t] - r.items[t]]

min_demand(rem) == \A t \in DOMAIN rem : rem[t] <= 0

\* Adding up max_width over the rolls: what is still to be cut needs the width
\* sum(order_sizes[t] * rem[t]) <= RAWS_WIDTH * sum(cuts).  A budget below
\* that cannot be met; the search stops there.
Fits(d, rem, budget) ==
    PatternWidth(d, [t \in DOMAIN rem |-> Max(rem[t], 0)])
        <= d.RAWS_WIDTH * budget

\* whether n more rolls with sum(cuts) <= budget satisfy every min_demand_t
RECURSIVE BaseFeasible(_, _, _, _, _)
BaseFeasible(d, choices, n, rem, budget) ==
    IF n = 0 THEN min_demand(rem)
    ELSE /\ Fits(d, rem, budget)
         /\ \E r \in choices :
                /\ r.used <= budget
                /\ BaseFeasible(d, choices, n - 1, AfterRoll(rem, r),
                                budget - r.used)

\* the assignments of n more rolls with sum(cuts) <= budget that satisfy every
\* min_demand_t, as sequences of rolls
RECURSIVE BaseAssignments(_, _, _, _, _)
BaseAssignments(d, choices, n, rem, budget) ==
    IF n = 0 THEN (IF min_demand(rem) THEN {<<>>} ELSE {})
    ELSE IF ~Fits(d, rem, budget) THEN {}
    ELSE UNION {{<<r>> \o s :
                    s \in BaseAssignments(d, choices, n - 1, AfterRoll(rem, r),
                                          budget - r.used)} :
                r \in {x \in choices : x.used <= budget}}

\* the least value of the objective lpSum(cuts) (line 65) from k on, -1 when
\* the program is infeasible
RECURSIVE BaseLeast(_, _, _, _, _, _)
BaseLeast(d, choices, n, rem, k, kmax) ==
    IF k > kmax THEN -1
    ELSE IF BaseFeasible(d, choices, n, rem, k) THEN k
    ELSE BaseLeast(d, choices, n, rem, k + 1, kmax)

---------------------------------------------------------------------------
(* column_model: the program it builds (lines 85-103).                     *)

\* min_demand_t (lines 96-100) once pattern p has been given the value y:
\*   sum(pattern_vars[p] * patterns[p][t] for p) >= orders[t]
AfterPatternUnweighted(d, rem, p, y) ==
    [t \in DOMAIN rem |-> rem[t] - y]

AfterPattern(d, rem, p, y) ==
    [t \in DOMAIN rem |-> rem[t] - y * d.patterns[p][t]]

\* the assignments of pattern_vars[p..] (lowBound=0, line 93) with
\* sum(pattern_vars) <= budget that satisfy every min_demand_t
RECURSIVE ColumnAssignments(_, _, _, _)
ColumnAssignments(d, p, rem, budget) ==
    IF p > Len(d.patterns) THEN (IF min_demand(rem) THEN {<<>>} ELSE {})
    ELSE UNION {{<<y>> \o s :
                    s \in ColumnAssignments(d, p + 1, AfterPattern(d, rem, p, y),
                                            budget - y)} :
                y \in 0..budget}

\* the least value of the objective lpSum(pattern_vars) (line 103) from k on,
\* -1 when the program is infeasible
RECURSIVE ColumnLeast(_, _, _, _)
ColumnLeast(d, rem, k, kmax) ==
    IF k > kmax THEN -1
    ELSE IF ColumnAssignments(d, 1, rem, k) # {} THEN k
    ELSE ColumnLeast(d, rem, k + 1, kmax)

\* An order type nobody can cut makes the program infeasible; otherwise one
\* roll per ordered unit is an assignment, so the optimum is at most this.
ColumnMost(d, den) ==
    den * SumFn([t \in order_types_ids(d) |-> Max(d.orders[t], 0)],
                order_types_ids(d))

---------------------------------------------------------------------------
(* The domain of the variables (lines 38-41, 79-82).                       *)

RECURSIVE Gcd(_, _)
Gcd(a, b) == IF b = 0 THEN a ELSE Gcd(b, a % b)

RECURSIVE Lcm(_)
Lcm(S) ==
    IF S = {} THEN 1
    ELSE LET x == CHOOSE y \in S : TRUE
             m == Lcm(S \ {x})
         IN (x * m) \div Gcd(x, m)

RECURSIVE Ascending(_)
Ascending(S) ==
    IF S = {} THEN <<>>
    ELSE LET m == CHOOSE x \in S : \A y \in S : x <= y
         IN <<m>> \o Ascending(S \ {m})

Without(s, j) == [i \in 1..(Len(s) - 1) |-> IF i < j THEN s[i] ELSE s[i + 1]]

\* determinant of the square matrix patterns[cols[j]][rows[i]], expanded
\* along its first row
RECURSIVE Det(_, _, _)
Det(d, rows, cols) ==
    IF rows = <<>> THEN 1
    ELSE SumFn([j \in 1..Len(cols) |->
                   (IF j % 2 = 1 THEN 1 ELSE -1)
                   * d.patterns[cols[j]][rows[1]]
                   * Det(d, Tail(rows), Without(cols, j))],
               1..Len(cols))

\* the non-zero minors of the pattern matrix
Minors(d) ==
    {Abs(Det(d, Ascending(R), Ascending(C))) :
        <<R, C>> \in {rc \in (SUBSET order_types_ids(d)) \X (SUBSET patterns_ids(d)) :
                        Cardinality(rc[1]) = Cardinality(rc[2])}} \ {0}

\* vars_type = LpInteger: the variables take whole values, den = 1.
\* vars_type = LpContinuous: the variables take the values k/den.
\*   base_model: den = RAWS_WIDTH.  With every width <= RAWS_WIDTH this grid
\*   holds an optimum of the linear program (each ordered unit on a roll of
\*   its own, used to width/RAWS_WIDTH, meets the bound
\*   sum(cuts) >= sum(orders[t] * order_sizes[t]) / RAWS_WIDTH).
\*   column_model: den = the least common multiple of the non-zero minors of
\*   the pattern matrix; every vertex of the program, an optimal one among
\*   them, has its coordinates on this grid (Cramer's rule).
ScaleSwapped(d, fn, relaxation) ==
    IF relaxation THEN 1
    ELSE IF fn = "base_model" THEN d.RAWS_WIDTH
    ELSE Lcm(Minors(d))

Scale(d, fn, relaxation) ==
    IF ~relaxation THEN 1
    ELSE IF fn = "base_model" THEN d.RAWS_WIDTH
    ELSE Lcm(Minors(d))

\* a solved value v/den is >= 0.001 (lines 71, 107)
le_tolerance(v, den) == v * 1000 <= den

ge_tolerance(v, den) == v * 1000 >= den

\* int(x) of a solved value x = v/den >= 0 (line 72)
int(v, den) == v \div den

---------------------------------------------------------------------------
(* model.solve() (lines 66, 104).                                          *)

\* What a failed solve may leave in the variables of a roll: a corner of
\* their bounds.
RollLeftovers(d, den) ==
    [used : {0, den}, items : [order_types_ids(d) -> {0, den}]]

\* base_model's solve: status, whether the variables were given values, and
\* the values of (cuts[c], items[., c]) for each roll c
SolveBase(d, den) ==
    LET choices == RollChoices(d, den)
        n == Cardinality(cuts_ids(d))
        rem == Demand(d, den)
        least == BaseLeast(d, choices, n, rem, 0, n * den)
    IN IF least >= 0
       THEN {[status |-> "Optimal", assigned |-> TRUE, rolls |-> s] :
                s \in BaseAssignments(d, choices, n, rem, least)}
       ELSE {[status |-> "Infeasible", assigned |-> TRUE,
              rolls |-> [c \in 1..n |-> r]] : r \in RollLeftovers(d, den)}
            \cup {[status |-> "Infeasible", assigned |-> FALSE,
                   rolls |-> [c \in 1..n |-> [used |-> 0,
                              items |-> [t \in order_types_ids(d) |-> 0]]]]}

\* column_model's solve: status, whether the variables were given values,
\* and the value of each pattern_vars[p]
SolveColumn(d, den) ==
    LET rem == Demand(d, den)
        least == ColumnLeast(d, rem, 0, ColumnMost(d, den))
    IN IF least >= 0
       THEN {[status |-> "Optimal", assigned |-> TRUE, values |-> s] :
                s \in ColumnAssignments(d, 1, rem, least)}
       ELSE {[status |-> "Infeasible", assigned |-> TRUE, values |-> s] :
                s \in [patterns_ids(d) -> {0, den}]}
            \cup {[status |-> "Infeasible", assigned |-> FALSE,
                   values |-> [p \in patterns_ids(d) |-> 0]]}

---------------------------------------------------------------------------
(* Reading the solution back (lines 69-73, 105-110).                       *)

\* Line 71, `if cuts[c] >= 0.001`.  cuts[c] is the LpVariable, not its
\* varValue: pulp overloads >= on a variable to build the LpConstraint
\* raw_cut_c >= 0.001, and that object is truthy.  The branch is taken for
\* every roll, whatever the solver left in cuts[c].
cut_selected(cuts, c, den) == TRUE

\* line 72: tuple([int(items[t, c].varValue) for t in order_types_ids])
RollPattern(items, c, den) ==
    [t \in DOMAIN items[c] |-> int(items[c][t], den)]

\* lines 69-73: dict(Counter(used_patterns))
BasePatterns(cuts, items, den) ==
    LET sel == {c \in DOMAIN cuts : cut_selected(cuts, c, den)}
    IN [q \in {RollPattern(items, c, den) : c \in sel} |->
           Cardinality({c \in sel : RollPattern(items, c, den) = q})]

\* line 107: if pattern_vars[p].varValue >= 0.001
pattern_selected(values, p, den) == ge_tolerance(values[p], den)

\* lines 105-108: used_patterns[tuple(data.patterns[p])] = varValue, for p in
\* the order of the list: a later p with the same pattern overwrites
ColumnPatterns(d, values, den) ==
    LET sel == {p \in patterns_ids(d) : pattern_selected(values, p, den)}
        last(q) == CHOOSE p \in sel :
                      /\ d.patterns[p] = q
                      /\ \A r \in sel : d.patterns[r] = q => r <= p
    IN [q \in {d.patterns[p] : p \in sel} |-> values[last(q)]]

\* model.objective.value() (lines 73, 110): the sum of the variables of the
\* objective
BaseObjective(cuts) == SumFn(cuts, DOMAIN cuts)

ColumnObjective(values) == SumFn(values, DOMAIN values)

---------------------------------------------------------------------------
(* The caller and the two functions.                                       *)

\* lines 116-120: the four calls of __main__, in its order
MainPlan ==
    << <<"base_model", FALSE>>, <<"column_model", FALSE>>,
       <<"base_model", TRUE>>, <<"column_model", TRUE>> >>

\* a caller that solves with integer variables only
IntegerPlan == << <<"base_model", FALSE>>, <<"column_model", FALSE>> >>

\* the caller's variable that receives the objective (lines 116-120)
ObjName(fn, relaxation) ==
    IF fn = "base_model"
    THEN (IF relaxation THEN "r_base_obj" ELSE "base_obj")
    ELSE (IF relaxation THEN "r_col_obj" ELSE "col_obj")

ObjNames == {"base_obj", "col_obj", "r_base_obj", "r_col_obj"}

\* no value: the call has not returned
NoObj == [num |-> 0, den |-> 0]

NoFrame ==
    [fn |-> "none", relaxation |-> FALSE, den |-> 1, status |-> "none",
     assigned |-> FALSE, cuts |-> <<>>, items |-> <<>>, pattern_vars |-> <<>>,
     outcome |-> "none", objective |-> NoObj, used_patterns |-> <<>>]

\* Instances: RAWS_WIDTH >= 1, widths >= 1 and at least one candidate roll
\* (RAWS_NUMBER >= 1); quantities may be negative, widths may exceed
\* RAWS_WIDTH and patterns may be wider than the roll or repeated, since
\* neither function looks at its input before building the program.
GenericData ==
    {d \in UNION {[RAWS_WIDTH : 1..MaxRaw,
                   orders : [1..T -> -1..MaxQty],
                   order_sizes : [1..T -> 1..MaxRaw],
                   patterns : [1..P -> [1..T -> 0..MaxCount]]] :
                  <<T, P>> \in (1..MaxTypes) \X (1..MaxPatterns)} :
        /\ RAWS_NUMBER(d) >= 1
        /\ RAWS_NUMBER(d) <= MaxDemand}

\* the two concrete instances of the specification's scenarios
ScenarioOneType ==
    [RAWS_WIDTH |-> 10, orders |-> <<10>>, order_sizes |-> <<5>>,
     patterns |-> << <<2>> >>]

ScenarioTwoTypes ==
    [RAWS_WIDTH |-> 10, orders |-> <<9, 1>>, order_sizes |-> <<3, 9>>,
     patterns |-> << <<1, 0>>, <<0, 1>> >>]

Start ==
    /\ pc = 1
    /\ objs = [n \in ObjNames |-> NoObj]
    /\ frame = NoFrame

\* __main__ on an instance of the generic family
Init ==
    /\ data \in GenericData
    /\ plan = MainPlan
    /\ Start

\* the integer solves of a scenario instance
ScenarioInit ==
    /\ data \in {ScenarioOneType, ScenarioTwoTypes}
    /\ plan = IntegerPlan
    /\ Start

\* the call the caller makes next
Calling(fn, relaxation) ==
    /\ pc <= Len(plan)
    /\ plan[pc] = <<fn, relaxation>>
    /\ frame.outcome # "raised"

\* base_model(data, relaxation) (lines 34-73)
base_model(relaxation) ==
    /\ Calling("base_model", relaxation)
    /\ LET den == Scale(data, "base_model", relaxation)
       IN \E sol \in SolveBase(data, den) :
            LET cuts == [c \in DOMAIN sol.rolls |-> sol.rolls[c].used]
                items == [c \in DOMAIN sol.rolls |-> sol.rolls[c].items]
                \* int(None) at line 72 raises TypeError
                raised == ~sol.assigned /\ cuts # <<>>
                objective == [num |-> BaseObjective(cuts), den |-> den]
            IN /\ frame' =
                    [fn |-> "base_model", relaxation |-> relaxation,
                     den |-> den, status |-> sol.status,
                     assigned |-> sol.assigned, cuts |-> cuts, items |-> items,
                     pattern_vars |-> <<>>,
                     outcome |-> IF raised THEN "raised" ELSE "returned",
                     objective |-> IF raised THEN NoObj ELSE objective,
                     used_patterns |-> IF raised THEN <<>>
                                       ELSE BasePatterns(cuts, items, den)]
               /\ objs' = IF raised THEN objs
                          ELSE [objs EXCEPT ![ObjName("base_model", relaxation)]
                                                = objective]
    /\ pc' = pc + 1
    /\ UNCHANGED <<data, plan>>

\* column_model(data, relaxation) (lines 76-110)
column_model(relaxation) ==
    /\ Calling("column_model", relaxation)
    /\ LET den == Scale(data, "column_model", relaxation)
       IN \E sol \in SolveColumn(data, den) :
            LET \* None >= 0.001 at line 107 raises TypeError
                raised == ~sol.assigned
                objective == [num |-> ColumnObjective(sol.values), den |-> den]
            IN /\ frame' =
                    [fn |-> "column_model", relaxation |-> relaxation,
                     den |-> den, status |-> sol.status,
                     assigned |-> sol.assigned, cuts |-> <<>>, items |-> <<>>,
                     pattern_vars |-> sol.values,
                     outcome |-> IF raised THEN "raised" ELSE "returned",
                     objective |-> IF raised THEN NoObj ELSE objective,
                     used_patterns |-> IF raised THEN <<>>
                                       ELSE ColumnPatterns(data, sol.values, den)]
               /\ objs' = IF raised THEN objs
                          ELSE [objs EXCEPT ![ObjName("column_model", relaxation)]
                                                = objective]
    /\ pc' = pc + 1
    /\ UNCHANGED <<data, plan>>

Next ==
    \E relaxation \in BOOLEAN :
        \/ base_model(relaxation)
        \/ column_model(relaxation)

Spec == Init /\ [][Next]_vars

ScenarioSpec == ScenarioInit /\ [][Next]_vars

---------------------------------------------------------------------------
(* Vocabulary of the properties.                                           *)

\* a <= b for two objective values
ObjLe(a, b) == a.num * b.den <= b.num * a.den

\* the objective value a is the whole number k
ObjIs(a, k) == a.den > 0 /\ a.num = k * a.den

\* the latest call was fn(data, relaxation) and it returned a result
Returned(fn, relaxation) ==
    /\ frame.fn = fn
    /\ frame.relaxation = relaxation
    /\ frame.outcome = "returned"

\* the data model's order types: quantity >= 0 and 0 < width <= rawWidth
ProblemInstance(d) ==
    \A t \in order_types_ids(d) :
        /\ d.orders[t] >= 0
        /\ d.order_sizes[t] >= 1
        /\ d.order_sizes[t] <= d.RAWS_WIDTH

\* the data model's pattern invariant
ValidPatterns(d) ==
    \A p \in patterns_ids(d) : PatternWidth(d, d.patterns[p]) <= d.RAWS_WIDTH

\* units of order type t that a pattern-usage mapping yields
Yield(usage, t) == SumFn([q \in DOMAIN usage |-> q[t] * usage[q]], DOMAIN usage)

---------------------------------------------------------------------------
(* Properties.                                                             *)

\* C1: when every supplied pattern fits the raw roll and the pattern model is
\* feasible, column_model's integer objective is at least base_model's
\* integer objective on the same data.
C1_ColumnAtLeastBase ==
    ( /\ Returned("column_model", FALSE)
      /\ frame.status = "Optimal"
      /\ ValidPatterns(data)
      /\ objs["base_obj"] # NoObj )
    => ObjLe(objs["base_obj"], objs["col_obj"])

\* C1 witness: both integer solves returned, on fitting patterns, and the
\* pattern model needs strictly more rolls.
C1_Witness ==
    /\ Returned("column_model", FALSE)
    /\ frame.status = "Optimal"
    /\ ValidPatterns(data)
    /\ objs["base_obj"] # NoObj
    /\ ~ObjLe(objs["col_obj"], objs["base_obj"])

\* the smallest order width
MinWidth(d) ==
    CHOOSE w \in {d.order_sizes[t] : t \in order_types_ids(d)} :
        \A t \in order_types_ids(d) : w <= d.order_sizes[t]

\* C2: on a problem instance with every width <= rawWidth, base_model's
\* integer objective is a non-negative whole number, at least
\* totalDemand * minWidth / rawWidth and at least
\* ceil(quantity[t] * width[t] / rawWidth) for every order type t.
C2_BaseLowerBound ==
    (Returned("base_model", FALSE) /\ ProblemInstance(data))
    => /\ frame.objective.den = 1
       /\ frame.objective.num >= 0
       /\ frame.objective.num * data.RAWS_WIDTH
              >= RAWS_NUMBER(data) * MinWidth(data)
       /\ \A t \in order_types_ids(data) :
              frame.objective.num
                  >= CeilDiv(data.orders[t] * data.order_sizes[t], data.RAWS_WIDTH)

\* C2 witness: an integer base solve of two order types returned, the bound
\* of one order type is positive and the objective lies strictly above both
\* bounds of it.
C2_Witness ==
    /\ Returned("base_model", FALSE)
    /\ ProblemInstance(data)
    /\ Len(data.orders) = 2
    /\ \E t \in order_types_ids(data) :
          /\ CeilDiv(data.orders[t] * data.order_sizes[t], data.RAWS_WIDTH) >= 1
          /\ frame.objective.num
                > CeilDiv(data.orders[t] * data.order_sizes[t], data.RAWS_WIDTH)
    /\ frame.objective.num * data.RAWS_WIDTH > RAWS_NUMBER(data) * MinWidth(data)

\* the rolls whose solved cuts[c] is at least the tolerance
UsedRolls == {c \in DOMAIN frame.cuts : ge_tolerance(frame.cuts[c], frame.den)}

\* C3 (as claimed, on the solves that succeed): a solved value below 0.001
\* is kept out of the mapping.
\* base_model: the mapping counts exactly the rolls whose cuts[c] value is at
\* least 0.001, so a roll below it adds no entry and increments no count.
\* column_model: a pattern is a key only if some pattern_vars[p] of that
\* pattern is at least 0.001.
C3_BelowToleranceExcluded ==
    /\ (Returned("base_model", frame.relaxation) /\ frame.status = "Optimal")
       => \A q \in DOMAIN frame.used_patterns :
             frame.used_patterns[q]
                = Cardinality({c \in UsedRolls :
                                  RollPattern(frame.items, c, frame.den) = q})
    /\ (Returned("column_model", frame.relaxation) /\ frame.status = "Optimal")
       => \A q \in DOMAIN frame.used_patterns :
             \E p \in patterns_ids(data) :
                /\ data.patterns[p] = q
                /\ ge_tolerance(frame.pattern_vars[p], frame.den)

\* C4 (as claimed, on the solves that succeed for valid order types): every
\* pattern that is a key of a returned mapping fits the raw roll.
C4_ReportedPatternsFit ==
    ( /\ frame.outcome = "returned"
      /\ frame.status = "Optimal"
      /\ ProblemInstance(data) )
    => \A q \in DOMAIN frame.used_patterns :
          PatternWidth(data, q) <= data.RAWS_WIDTH

\* C5 (as claimed): rawWidth 10, orders {9 of width 3, 1 of width 9}:
\* base_model's integer objective is 10.
C5_ScenarioObjectiveTen ==
    (data = ScenarioTwoTypes /\ Returned("base_model", FALSE))
    => ObjIs(frame.objective, 10)

\* C5 (amended): on that instance base_model's integer objective is 4: three
\* rolls of three width-3 pieces and one roll for the width-9 piece.
C5_ScenarioObjectiveFour ==
    (data = ScenarioTwoTypes /\ Returned("base_model", FALSE))
    => ObjIs(frame.objective, 4)

\* C5 witness: base_model returned from its integer solve of that instance.
C5_Witness ==
    /\ data = ScenarioTwoTypes
    /\ Returned("base_model", FALSE)
    /\ frame.status = "Optimal"

\* C6: rawWidth 10, one order type {10 of width 5}, patterns [[2]]:
\* column_model's integer solve returns objective 5 and usage {(2,): 5}, and
\* base_model's integer solve returns objective 5.
C6_ScenarioOneType ==
    /\ (data = ScenarioOneType /\ Returned("base_model", FALSE))
       => ObjIs(frame.objective, 5)
    /\ (data = ScenarioOneType /\ pc > 2)
       => /\ Returned("column_model", FALSE)
          /\ ObjIs(frame.objective, 5)
          /\ DOMAIN frame.used_patterns = {<<2>>}
          /\ frame.used_patterns[<<2>>] = 5
          /\ ObjIs(objs["base_obj"], 5)
          /\ ObjIs(objs["col_obj"], 5)

\* C6 witness: both integer solves of that instance returned.
C6_Witness ==
    /\ data = ScenarioOneType
    /\ Returned("column_model", FALSE)
    /\ objs["base_obj"] # NoObj
    /\ objs["col_obj"] # NoObj

\* C7: on a problem instance base_model's relaxed objective is at most its
\* integer objective.
C7_RelaxationAtMostInteger ==
    ( /\ ProblemInstance(data)
      /\ objs["base_obj"] # NoObj
      /\ objs["r_base_obj"] # NoObj )
    => ObjLe(objs["r_base_obj"], objs["base_obj"])

\* C7 witness: both base solves returned and the relaxed objective is
\* strictly smaller.
C7_Witness ==
    /\ ProblemInstance(data)
    /\ Returned("base_model", TRUE)
    /\ objs["base_obj"] # NoObj
    /\ ~ObjLe(objs["base_obj"], objs["r_base_obj"])

\* C8 (as claimed, for valid order types): a result is returned only when the
\* solve succeeded; an infeasible solve returns none.
C8_NoResultFromFailedSolve ==
    (frame.status = "Infeasible" /\ ProblemInstance(data))
    => frame.outcome # "returned"

\* the invalid input of C9
InvalidInput(d) ==
    \/ ~ValidPatterns(d)
    \/ \E t \in order_types_ids(d) : d.order_sizes[t] <= 0 \/ d.orders[t] < 0

\* C9 (as claimed, on the solves that succeed): invalid input yields no
\* objective and no mapping.
C9_InvalidInputRejected ==
    (InvalidInput(data) /\ frame.status = "Optimal")
    => frame.outcome # "returned"

\* C10 (as claimed): on a feasible instance solved with integer variables the
\* returned mapping covers the demand of every order type.
C10_MappingCoversDemand ==
    ( /\ frame.outcome = "returned"
      /\ ~frame.relaxation
      /\ frame.status = "Optimal"
      /\ ProblemInstance(data)
      /\ ValidPatterns(data) )
    => \A t \in order_types_ids(data) :
          Yield(frame.used_patterns, t) >= data.orders[t]


============================================================================
